---- MODULE Spec2Model ----
(***************************************************************************)
(* Model of the terminal daily planner (src/main.py): the todos/settings   *)
(* tables, the store operations, the queries behind each view and the      *)
(* keystroke loop of main().                                               *)
(*                                                                         *)
(* Text is a sequence of one-character strings, so that strip, lower,      *)
(* capitalize, int(), str() and SQL LIKE are computed character by         *)
(* character.  A calendar date is a day number; its ISO text is            *)
(* isoformat(n).  The state is observed where main() blocks in getch().    *)
(***************************************************************************)
EXTENDS Integers, Sequences, FiniteSets, TLC

\* ------------------------------------------------------------------ bounds
MaxTasks == 2       \* rows the todos table may hold
StartDay == 10      \* date.today() when the program starts
MaxTicks == 1       \* midnights that may pass while the program runs

MaxDay == StartDay + MaxTicks
MaxCount == 50      \* the greatest total a progress percentage is computed of
MaxGrindDone == 3   \* the most tasks completed on one day in the grind view
MaxGoalValue == 5   \* the greatest daily goal in the grind view

\* -------------------------------------------------------------------- text
LowerLetters ==
  <<"a","b","c","d","e","f","g","h","i","j","k","l","m",
    "n","o","p","q","r","s","t","u","v","w","x","y","z">>
UpperLetters ==
  <<"A","B","C","D","E","F","G","H","I","J","K","L","M",
    "N","O","P","Q","R","S","T","U","V","W","X","Y","Z">>
Digits == <<"0","1","2","3","4","5","6","7","8","9">>

IsSpace(c) == c = " "
\* a character str.isdigit() accepts and int() rejects
SuperscriptTwo == "²"

IsDecimalChar(c) == \E i \in 1..10 : Digits[i] = c
\* the characters of str.isdigit()
IsDigitChar(c) == IsDecimalChar(c) \/ c = SuperscriptTwo
DigitValue(c) == (CHOOSE i \in 1..10 : Digits[i] = c) - 1

lower_char(c) ==
  IF \E i \in 1..26 : UpperLetters[i] = c
  THEN LowerLetters[CHOOSE i \in 1..26 : UpperLetters[i] = c]
  ELSE c
upper_char(c) ==
  IF \E i \in 1..26 : LowerLetters[i] = c
  THEN UpperLetters[CHOOSE i \in 1..26 : LowerLetters[i] = c]
  ELSE c

\* str.lower()
lower(s) == [i \in 1..Len(s) |-> lower_char(s[i])]

\* str.capitalize(): first character upper-cased, the rest lower-cased
capitalize(s) ==
  [i \in 1..Len(s) |-> IF i = 1 THEN upper_char(s[i]) ELSE lower_char(s[i])]

RECURSIVE lstrip(_)
lstrip(s) == IF s # <<>> /\ IsSpace(Head(s)) THEN lstrip(Tail(s)) ELSE s
RECURSIVE rstrip(_)
rstrip(s) ==
  IF s # <<>> /\ IsSpace(s[Len(s)]) THEN rstrip(SubSeq(s, 1, Len(s) - 1)) ELSE s
\* str.strip()
strip(s) == rstrip(lstrip(s))

\* str.isdigit(): non-empty and every character a digit
isdigit(s) == s # <<>> /\ \A i \in 1..Len(s) : IsDigitChar(s[i])

\* value of a string of digits
RECURSIVE DigitsValue(_)
DigitsValue(s) ==
  IF s = <<>> THEN 0
  ELSE 10 * DigitsValue(SubSeq(s, 1, Len(s) - 1)) + DigitValue(s[Len(s)])

\* the digits of int(): digits, single underscores allowed between them
IntBody(s) ==
  /\ s # <<>>
  /\ IsDecimalChar(s[1]) /\ IsDecimalChar(s[Len(s)])
  /\ \A i \in 1..Len(s) : IsDecimalChar(s[i]) \/ s[i] = "_"
  /\ \A i \in 1..(Len(s) - 1) : ~(s[i] = "_" /\ s[i + 1] = "_")
StripUnderscores(s) == SelectSeq(s, LAMBDA c : c # "_")

\* int() of a text without surrounding whitespace
IntOfStripped(s) ==
  LET signed == s # <<>> /\ s[1] \in {"+", "-"}
      body == IF signed THEN Tail(s) ELSE s
  IN IF IntBody(body)
     THEN [ok |-> TRUE,
           val |-> IF signed /\ s[1] = "-"
                   THEN 0 - DigitsValue(StripUnderscores(body))
                   ELSE DigitsValue(StripUnderscores(body))]
     ELSE [ok |-> FALSE, val |-> 0]

\* int(text): [ok |-> TRUE, val |-> n], or [ok |-> FALSE, val |-> 0] for ValueError
\* (s ranges over the one value of strip(text), which is evaluated once)
int(text) == CHOOSE r \in {IntOfStripped(s) : s \in {strip(text)}} : TRUE

\* str(n) for an integer n
RECURSIVE NatStr(_)
NatStr(n) ==
  IF n < 10 THEN <<Digits[n + 1]>>
  ELSE NatStr(n \div 10) \o <<Digits[(n % 10) + 1]>>
str(n) == IF n < 0 THEN <<"-">> \o NatStr(0 - n) ELSE NatStr(n)

\* ------------------------------------------------------------------- dates
\* date.isoformat() of day n of the month the model runs in
IsoPrefix == <<"2","0","2","4","-","0","1","-">>
isoformat(n) == IsoPrefix \o <<Digits[(n \div 10) + 1], Digits[(n % 10) + 1]>>
IsoDays == 1..31

\* dateutil's parser.parse(s).date(): here it reads ISO dates and raises on
\* every other text the model enters
date_parser_parse(s) ==
  IF \E n \in IsoDays : isoformat(n) = s
  THEN [ok |-> TRUE, day |-> CHOOSE n \in IsoDays : isoformat(n) = s]
  ELSE [ok |-> FALSE, day |-> 0]

\* date.max (9999-12-31) as a day number, day 1 being 2024-01-01
DateMaxDay == 2913174

\* the exceptions parse_due_date lets escape to its caller
ValueError == <<"ValueError">>
OverflowError == <<"OverflowError">>
Raises(due) == due \in {ValueError, OverflowError}

\* (today + timedelta(days=n)).isoformat(): no date lies past date.max
PlusDays(today_, n) ==
  IF today_ + n > DateMaxDay THEN OverflowError ELSE isoformat(today_ + n)

\* int(mid) of the relative forms, then the date n days on
PlusParsed(today_, mid, unit) ==
  IF int(mid).ok THEN PlusDays(today_, unit * int(mid).val) ELSE ValueError

\* parse_due_date from `s = text.strip().lower()` on
ParseDueLowered(s, today_) ==
  LET mid == SubSeq(s, 2, Len(s) - 1)
  IN IF s = <<>> THEN <<>>
     ELSE IF s = <<"t","o","d","a","y">> THEN isoformat(today_)
     ELSE IF s = <<"t","o","m","o","r","r","o","w">> THEN isoformat(today_ + 1)
     ELSE IF s[1] = "+" /\ s[Len(s)] = "d" /\ isdigit(mid)
          THEN PlusParsed(today_, mid, 1)
     ELSE IF s[1] = "+" /\ s[Len(s)] = "w" /\ isdigit(mid)
          THEN PlusParsed(today_, mid, 7)
     ELSE IF date_parser_parse(s).ok THEN isoformat(date_parser_parse(s).day)
     ELSE s

\* parse_due_date(text): the due text stored, or the exception raised
\* (s ranges over the one value of the lowered text, which is evaluated once)
parse_due_date(text, today_) ==
  CHOOSE due \in {ParseDueLowered(s, today_) : s \in {lower(strip(text))}} : TRUE

\* ------------------------------------------------------------------- store
VARIABLES
  table,         \* the rows of table todos
  settings,      \* table settings: key -> value (text)
  today,         \* date.today(), a day number
  view,          \* main(): the view shown
  cursor_idx,    \* main(): 0-based index of the cursor in the dashboard list
  where_clause,  \* main(): SQL suffix of the active filter
  params,        \* main(): its parameters
  subtitle,      \* main(): heading of the active filter
  todos,         \* main(): the list the last draw returned
  running,       \* main(): the loop has not ended
  call           \* the store function last called directly, and its arguments

vars == <<table, settings, today, view, cursor_idx, where_clause, params,
          subtitle, todos, running, call>>

NULL == <<"NULL">>   \* SQL NULL in a TEXT column

High == <<"H","i","g","h">>
Medium == <<"M","e","d","i","u","m">>
Low == <<"L","o","w">>

Ids(tbl) == {r.id : r \in tbl}
Row(tbl, tid) == CHOOSE r \in tbl : r.id = tid

\* rowid SQLite gives an INSERT into a table with INTEGER PRIMARY KEY
NewRowId(tbl) ==
  IF tbl = {} THEN 1
  ELSE (CHOOSE m \in Ids(tbl) : \A i \in Ids(tbl) : i <= m) + 1

\* SQL: pattern LIKE text. % is any run of characters, _ any one character,
\* letters compare without regard to case
RECURSIVE Like(_, _)
Like(p, t) ==
  IF p = <<>> THEN t = <<>>
  ELSE IF Head(p) = "%"
       THEN Like(Tail(p), t) \/ (t # <<>> /\ Like(p, Tail(t)))
  ELSE IF t = <<>> THEN FALSE
  ELSE IF Head(p) = "_" THEN Like(Tail(p), Tail(t))
  ELSE lower_char(Head(p)) = lower_char(Head(t)) /\ Like(Tail(p), Tail(t))

CategoryClause == "AND category=?"
TitleClause == "AND title LIKE ?"

\* Where whose category comparison ignores case
Where_CaselessCategory(r, wc, ps) ==
  IF wc = CategoryClause THEN lower(r.category) = lower(ps[1])
  ELSE IF wc = TitleClause THEN Like(ps[1], r.title)
  ELSE TRUE

\* the filter suffix main() appends to each WHERE
Where(r, wc, ps) ==
  IF wc = CategoryClause THEN r.category = ps[1]
  ELSE IF wc = TitleClause THEN Like(ps[1], r.title)
  ELSE TRUE

\* rows of a result set in rowid order
RECURSIVE Fetch(_)
Fetch(rows) ==
  IF rows = {} THEN <<>>
  ELSE LET r == CHOOSE x \in rows : \A y \in rows : x.id <= y.id
       IN <<r>> \o Fetch(rows \ {r})

Reverse(s) == [i \in 1..Len(s) |-> s[Len(s) + 1 - i]]

\* add_todo: the INSERT is not reached when parse_due_date raises
add_todo(tbl, title, category, due, priority, today_) ==
  IF Raises(parse_due_date(due, today_)) THEN tbl
  ELSE tbl \cup {[id |-> NewRowId(tbl), title |-> title, category |-> category,
                  due |-> parse_due_date(due, today_), priority |-> priority,
                  done |-> 0, deleted |-> 0, completed_date |-> NULL]}

\* mark_done that sets done and leaves completed_date alone
mark_done_NoStamp(tbl, tid, today_) ==
  {IF r.id = tid THEN [r EXCEPT !.done = 1] ELSE r : r \in tbl}

\* mark_done that stamps completed_date only on a row not yet done
mark_done_KeepsDate(tbl, tid, today_) ==
  {IF r.id = tid /\ r.done = 0
   THEN [r EXCEPT !.done = 1, !.completed_date = isoformat(today_)]
   ELSE r : r \in tbl}

mark_done(tbl, tid, today_) ==
  {IF r.id = tid
   THEN [r EXCEPT !.done = 1, !.completed_date = isoformat(today_)]
   ELSE r : r \in tbl}

\* delete_todo that removes the row from the table
delete_todo_RemovesRow(tbl, tid) ==
  {r \in tbl : r.id # tid}

delete_todo(tbl, tid) ==
  {IF r.id = tid THEN [r EXCEPT !.deleted = 1] ELSE r : r \in tbl}

get_stats(tbl, wc, ps) ==
  <<Cardinality({r \in tbl : r.deleted = 0 /\ Where(r, wc, ps)}),
    Cardinality({r \in tbl : r.done = 1 /\ r.deleted = 0 /\ Where(r, wc, ps)})>>

get_daily_goal(st) ==
  IF "daily_goal" \in DOMAIN st THEN int(st["daily_goal"]).val ELSE 5

set_daily_goal(st, goal) ==
  [k \in DOMAIN st \cup {"daily_goal"} |->
     IF k = "daily_goal" THEN str(goal) ELSE st[k]]

CountCompletedOn(tbl, day_iso) ==
  Cardinality({r \in tbl :
     r.deleted = 0 /\ r.done = 1 /\ r.completed_date = day_iso})

get_today_completed(tbl, today_) == CountCompletedOn(tbl, isoformat(today_))

\* get_weekly_stats whose loop runs from today back to today-6
get_weekly_stats_NewestFirst(tbl, today_) ==
  [k \in 1..7 |-> <<today_ - (k - 1), CountCompletedOn(tbl, isoformat(today_ - (k - 1)))>>]

\* (day, count) for today-6 .. today, oldest first
get_weekly_stats(tbl, today_) ==
  [k \in 1..7 |-> <<today_ - (7 - k), CountCompletedOn(tbl, isoformat(today_ - (7 - k)))>>]

get_priority_order(priority) ==
  IF priority = High THEN 0
  ELSE IF priority = Medium THEN 1
  ELSE IF priority = Low THEN 2
  ELSE 1

\* the sort key without the minus sign: oldest first within a priority
SortKey_IdAscending(t) == <<get_priority_order(t.priority), t.id>>

\* the sort key of draw_dashboard and its tuple comparison
SortKey(t) == <<get_priority_order(t.priority), 0 - t.id>>
KeyLess(a, b) == a[1] < b[1] \/ (a[1] = b[1] /\ a[2] < b[2])

\* sorted(seq, key=SortKey): stable, so the element at index i comes after
\* the elements of a lesser key and after those of an equal key before it
SortedIndex(s, i) ==
  1 + Cardinality({j \in 1..Len(s) :
        \/ KeyLess(SortKey(s[j]), SortKey(s[i]))
        \/ (~KeyLess(SortKey(s[i]), SortKey(s[j])) /\ j < i)})
sorted(s) ==
  [k \in 1..Len(s) |-> s[CHOOSE i \in 1..Len(s) : SortedIndex(s, i) = k]]

\* the columns draw_dashboard selects
DashColumns(r) ==
  [id |-> r.id, title |-> r.title, category |-> r.category, due |-> r.due,
   done |-> r.done, priority |-> r.priority]

\* fetchall() of a SELECT, then sorted(): each of the two works on the value
\* of the step before it (rows, then s), which is evaluated once
FetchSorted(selected) ==
  CHOOSE out \in {sorted(s) : s \in {Fetch(rows) : rows \in {selected}}} : TRUE

\* draw_dashboard whose SELECT lacks deleted=0
draw_dashboard_KeepsDeleted(tbl, wc, ps) ==
  FetchSorted({DashColumns(r) : r \in {x \in tbl : x.done = 0 /\ Where(x, wc, ps)}})

\* draw_dashboard whose SELECT lacks done=0
draw_dashboard_KeepsDone(tbl, wc, ps) ==
  FetchSorted({DashColumns(r) : r \in {x \in tbl : x.deleted = 0 /\ Where(x, wc, ps)}})

\* the list draw_dashboard shows and returns
draw_dashboard(tbl, wc, ps) ==
  FetchSorted({DashColumns(r) :
                 r \in {x \in tbl : x.deleted = 0 /\ x.done = 0 /\ Where(x, wc, ps)}})

CompletedColumns(r) ==
  [id |-> r.id, title |-> r.title, category |-> r.category, due |-> r.due,
   priority |-> r.priority]

\* the list draw_completed shows: ORDER BY id DESC
draw_completed(tbl) ==
  LET rows == Reverse(Fetch({r \in tbl : r.deleted = 0 /\ r.done = 1}))
  IN [i \in 1..Len(rows) |-> CompletedColumns(rows[i])]

\* draw_weekly_stats: the streak loop over reversed(weekly_data), from the
\* i-th entry of the reversed list on
RECURSIVE StreakLoop(_, _, _)
StreakLoop(rev, daily_goal, i) ==
  IF i > Len(rev) THEN 0
  ELSE IF rev[i][2] >= daily_goal THEN 1 + StreakLoop(rev, daily_goal, i + 1)
  ELSE 0

\* the streak loop without its break: every day that hit the goal counts
current_streak_NoBreak(weekly_data, daily_goal) ==
  Cardinality({i \in 1..Len(weekly_data) : weekly_data[i][2] >= daily_goal})

\* draw_weekly_stats: current_streak
current_streak(weekly_data, daily_goal) ==
  StreakLoop(Reverse(weekly_data), daily_goal, 1)

\* -------------------------------------------------------------- the inputs
KEY_UP == "KEY_UP"
KEY_DOWN == "KEY_DOWN"
Keys == {KEY_UP, KEY_DOWN, "q", "a", "d", "x", "c", "g", "w", "f", "/", "b",
         "s", "z"}

\* what is typed at the four prompts of `a`: title, category, due, priority
AddInputs ==
  { << <<"a","b">>, <<"w">>, <<"+","2","d">>, <<"H","i","g","h">> >>,
    << <<"A">>, <<>>, <<>>, <<" ","l","o","w">> >>,
    << <<"a","_">>, <<"W">>, <<"b","a","n","a","n","a">>, <<"x">> >> }

\* what is typed at the prompt of `f`, of `/` and of `s`
FilterInputs == { <<>>, <<"w">> }
SearchInputs == { <<>>, <<"a">>, <<"_">> }
GoalInputs == { <<" ","1"," ">>, <<"0">>, <<"-","1">>, <<"x">>, <<>> }

\* the lines typed at the prompts that key k opens in the current view
Lines(k) ==
  IF view = "dashboard" /\ k = "a" THEN AddInputs
  ELSE IF view = "dashboard" /\ k = "f" THEN {<<cat>> : cat \in FilterInputs}
  ELSE IF view = "dashboard" /\ k = "/" THEN {<<query>> : query \in SearchInputs}
  ELSE IF view = "grind" /\ k = "s" THEN {<<text>> : text \in GoalInputs}
  ELSE {<<>>}

\* ------------------------------------------------------------ the main loop
\* top of the loop: the list is drawn for the dashboard only
Draw(v, tbl, wc, ps) ==
  IF v = "dashboard" THEN draw_dashboard(tbl, wc, ps) ELSE <<>>

\* EnteredPriority without strip() and capitalize()
EnteredPriority_AsTyped(text) ==
  IF text \in {High, Medium, Low} THEN text ELSE Medium

\* the priority main() passes to add_todo for the text typed
EnteredPriority(text) ==
  LET priority == capitalize(strip(text))
  IN IF priority \in {High, Medium, Low} THEN priority ELSE Medium

\* the branches of the elif chain: is key k handled in view v with list td
Bound(v, k, td) ==
  IF v = "dashboard"
  THEN \/ k \in {KEY_UP, KEY_DOWN, "d", "x"} /\ td # <<>>
       \/ k \in {"a", "c", "g", "w", "f", "/", "b"}
  ELSE IF v = "grind" THEN k \in {"b", "s"}
  ELSE k = "b"

Init ==
  /\ table = {}
  /\ settings = [k \in {"daily_goal"} |-> <<"5">>]
  /\ today = StartDay
  /\ view = "dashboard"
  /\ cursor_idx = 0
  /\ where_clause = ""
  /\ params = <<>>
  /\ subtitle = <<>>
  /\ todos = <<>>
  /\ running = TRUE
  /\ call = <<>>

\* q: break
Quit ==
  /\ running
  /\ running' = FALSE
  /\ UNCHANGED <<table, settings, today, view, cursor_idx, where_clause,
                 params, subtitle, todos, call>>

CursorUp ==
  /\ running /\ view = "dashboard" /\ todos # <<>>
  /\ cursor_idx' = (cursor_idx - 1) % Len(todos)
  /\ todos' = Draw(view, table, where_clause, params)
  /\ UNCHANGED <<table, settings, today, view, where_clause, params, subtitle,
                 running, call>>

\* CursorDown that does not wrap at the end of the list
CursorDown_NoWrap ==
  /\ running /\ view = "dashboard" /\ todos # <<>>
  /\ cursor_idx' = cursor_idx + 1
  /\ todos' = Draw(view, table, where_clause, params)
  /\ UNCHANGED <<table, settings, today, view, where_clause, params, subtitle,
                 running, call>>

CursorDown ==
  /\ running /\ view = "dashboard" /\ todos # <<>>
  /\ cursor_idx' = (cursor_idx + 1) % Len(todos)
  /\ todos' = Draw(view, table, where_clause, params)
  /\ UNCHANGED <<table, settings, today, view, where_clause, params, subtitle,
                 running, call>>

\* a: four prompts, add_todo, cursor and filter reset; an exception of
\* add_todo is caught nowhere and ends main()
Add(in) ==
  /\ running /\ view = "dashboard"
  /\ Cardinality(table) < MaxTasks
  /\ IF Raises(parse_due_date(in[3], today))
     THEN /\ running' = FALSE
          /\ UNCHANGED <<table, cursor_idx, where_clause, params, subtitle,
                         todos>>
     ELSE /\ table' = add_todo(table, in[1], in[2], in[3],
                               EnteredPriority(in[4]), today)
          /\ cursor_idx' = 0
          /\ where_clause' = "" /\ params' = <<>> /\ subtitle' = <<>>
          /\ todos' = Draw(view, table', where_clause', params')
          /\ UNCHANGED running
  /\ UNCHANGED <<settings, today, view, call>>

AddKey == \E in \in AddInputs : Add(in)

\* DoneKey that takes the first row of the list, not the row at the cursor
DoneKey_FirstRow ==
  /\ running /\ view = "dashboard" /\ todos # <<>>
  /\ table' = mark_done(table, todos[1].id, today)
  /\ cursor_idx' = 0
  /\ todos' = Draw(view, table', where_clause, params)
  /\ UNCHANGED <<settings, today, view, where_clause, params, subtitle, running,
                 call>>

\* d: mark_done on the row at the cursor; an index past the list raises
DoneKey ==
  /\ running /\ view = "dashboard" /\ todos # <<>>
  /\ IF cursor_idx < Len(todos)
     THEN /\ table' = mark_done(table, todos[cursor_idx + 1].id, today)
          /\ cursor_idx' = 0
          /\ todos' = Draw(view, table', where_clause, params)
          /\ UNCHANGED running
     ELSE /\ running' = FALSE
          /\ UNCHANGED <<table, cursor_idx, todos>>
  /\ UNCHANGED <<settings, today, view, where_clause, params, subtitle, call>>

\* x: delete_todo on the row at the cursor
DeleteKey ==
  /\ running /\ view = "dashboard" /\ todos # <<>>
  /\ IF cursor_idx < Len(todos)
     THEN /\ table' = delete_todo(table, todos[cursor_idx + 1].id)
          /\ cursor_idx' = 0
          /\ todos' = Draw(view, table', where_clause, params)
          /\ UNCHANGED running
     ELSE /\ running' = FALSE
          /\ UNCHANGED <<table, cursor_idx, todos>>
  /\ UNCHANGED <<settings, today, view, where_clause, params, subtitle, call>>

\* SwitchView that shows the grind view whatever the key
SwitchView_AlwaysGrind(v) ==
  /\ running /\ view = "dashboard"
  /\ view' = "grind"
  /\ todos' = <<>>
  /\ UNCHANGED <<table, settings, today, cursor_idx, where_clause, params,
                 subtitle, running, call>>

\* c, g, w: leave the dashboard for view v
SwitchView(v) ==
  /\ running /\ view = "dashboard"
  /\ view' = v
  /\ todos' = Draw(v, table, where_clause, params)
  /\ UNCHANGED <<table, settings, today, cursor_idx, where_clause, params,
                 subtitle, running, call>>

ToCompleted == SwitchView("completed")
ToGrind == SwitchView("grind")
ToWeekly == SwitchView("weekly")

\* f: prompt for a category, filter by it when it is not empty
Filter(cat) ==
  /\ running /\ view = "dashboard"
  /\ IF cat # <<>>
     THEN /\ where_clause' = CategoryClause /\ params' = <<cat>>
          /\ subtitle' = <<"Filtered by #">> \o cat
          /\ cursor_idx' = 0
     ELSE UNCHANGED <<where_clause, params, subtitle, cursor_idx>>
  /\ todos' = Draw(view, table, where_clause', params')
  /\ UNCHANGED <<table, settings, today, view, running, call>>

FilterKey == \E cat \in FilterInputs : Filter(cat)

\* /: prompt for a keyword, search the titles when it is not empty
Search(query) ==
  /\ running /\ view = "dashboard"
  /\ IF query # <<>>
     THEN /\ where_clause' = TitleClause
          /\ params' = << <<"%">> \o query \o <<"%">> >>
          /\ subtitle' = <<"Search results for '">> \o query \o <<"'">>
          /\ cursor_idx' = 0
     ELSE UNCHANGED <<where_clause, params, subtitle, cursor_idx>>
  /\ todos' = Draw(view, table, where_clause', params')
  /\ UNCHANGED <<table, settings, today, view, running, call>>

SearchKey == \E query \in SearchInputs : Search(query)

\* b on the dashboard: back to the full list
ClearFilter ==
  /\ running /\ view = "dashboard"
  /\ where_clause' = "" /\ params' = <<>> /\ subtitle' = <<>>
  /\ cursor_idx' = 0
  /\ todos' = Draw(view, table, where_clause', params')
  /\ UNCHANGED <<table, settings, today, view, running, call>>

\* CompletedBack that also clears the filter, as b on the dashboard does
CompletedBack_ClearsFilter ==
  /\ running /\ view = "completed"
  /\ view' = "dashboard"
  /\ cursor_idx' = 0
  /\ where_clause' = "" /\ params' = <<>> /\ subtitle' = <<>>
  /\ todos' = Draw(view', table, where_clause', params')
  /\ UNCHANGED <<table, settings, today, running, call>>

\* b in the completed view
CompletedBack ==
  /\ running /\ view = "completed"
  /\ view' = "dashboard"
  /\ cursor_idx' = 0
  /\ todos' = Draw(view', table, where_clause, params)
  /\ UNCHANGED <<table, settings, today, where_clause, params, subtitle, running,
                 call>>

\* PlainBack that resets the cursor, as b in the completed view does
PlainBack_ResetsCursor(v) ==
  /\ running /\ view = v
  /\ view' = "dashboard"
  /\ cursor_idx' = 0
  /\ todos' = Draw(view', table, where_clause, params)
  /\ UNCHANGED <<table, settings, today, where_clause, params, subtitle,
                 running, call>>

\* b in the grind view and in the weekly view
PlainBack(v) ==
  /\ running /\ view = v
  /\ view' = "dashboard"
  /\ todos' = Draw(view', table, where_clause, params)
  /\ UNCHANGED <<table, settings, today, cursor_idx, where_clause, params,
                 subtitle, running, call>>

GrindBack == PlainBack("grind")
WeeklyBack == PlainBack("weekly")

\* SetGoal whose test is goal >= 0
SetGoal_AcceptsZero(text) ==
  /\ running /\ view = "grind"
  /\ \E goal \in {int(text)} :
       IF goal.ok /\ goal.val >= 0
       THEN settings' = set_daily_goal(settings, goal.val)
       ELSE UNCHANGED settings
  /\ todos' = Draw(view, table, where_clause, params)
  /\ UNCHANGED <<table, today, view, cursor_idx, where_clause, params, subtitle,
                 running, call>>

\* s in the grind view: prompt, int(), set_daily_goal when positive
SetGoal(text) ==
  /\ running /\ view = "grind"
  /\ \E goal \in {int(text)} :
       IF goal.ok /\ goal.val > 0
       THEN settings' = set_daily_goal(settings, goal.val)
       ELSE UNCHANGED settings
  /\ todos' = Draw(view, table, where_clause, params)
  /\ UNCHANGED <<table, today, view, cursor_idx, where_clause, params, subtitle,
                 running, call>>

SetGoalKey == \E text \in GoalInputs : SetGoal(text)

\* a key no branch of the chain handles: the loop only redraws
Ignored(k) ==
  /\ running
  /\ k # "q" /\ ~Bound(view, k, todos)
  /\ UNCHANGED <<table, settings, today, view, cursor_idx, where_clause, params,
                 subtitle, running, call>>
  /\ todos' = Draw(view, table, where_clause, params)

IgnoredKey == \E k \in Keys : Ignored(k)

\* one turn of the loop: getch() returned k, the prompts read `lines`
Pressed(k, lines) ==
  \/ k = "q" /\ Quit
  \/ k = KEY_UP /\ CursorUp
  \/ k = KEY_DOWN /\ CursorDown
  \/ k = "a" /\ Add(lines)
  \/ k = "d" /\ DoneKey
  \/ k = "x" /\ DeleteKey
  \/ k = "c" /\ ToCompleted
  \/ k = "g" /\ ToGrind
  \/ k = "w" /\ ToWeekly
  \/ k = "f" /\ Filter(lines[1])
  \/ k = "/" /\ Search(lines[1])
  \/ k = "b" /\ (ClearFilter \/ CompletedBack \/ GrindBack \/ WeeklyBack)
  \/ k = "s" /\ SetGoal(lines[1])
  \/ Ignored(k)

\* midnight passes while the loop waits in getch()
Tick ==
  /\ running /\ today < MaxDay
  /\ today' = today + 1
  /\ UNCHANGED <<table, settings, view, cursor_idx, where_clause, params,
                 subtitle, todos, running, call>>

Next ==
  \/ Quit \/ CursorUp \/ CursorDown \/ AddKey \/ DoneKey \/ DeleteKey
  \/ ToCompleted \/ ToGrind \/ ToWeekly \/ FilterKey \/ SearchKey
  \/ ClearFilter \/ CompletedBack \/ GrindBack \/ WeeklyBack \/ SetGoalKey
  \/ IgnoredKey \/ Tick

Spec == Init /\ [][Next]_vars

\* ------------------------------------------------- the store called directly
\* The store functions called with any id, as a caller other than main() may.
\* call holds the function's name and arguments (for mark_done also the
\* completed_date its UPDATE overwrote, NULL when no row had the id).
StoreAdd ==
  /\ Cardinality(table) < MaxTasks
  /\ \E in \in AddInputs :
       /\ table' = add_todo(table, in[1], in[2], in[3], EnteredPriority(in[4]), today)
       /\ call' = <<"add_todo", in>>
  /\ UNCHANGED <<settings, today, view, cursor_idx, where_clause, params,
                 subtitle, todos, running>>

StoreMarkDone ==
  /\ \E tid \in 1..(MaxTasks + 1) :
       /\ table' = mark_done(table, tid, today)
       /\ call' = <<"mark_done", tid,
                    IF tid \in Ids(table)
                    THEN Row(table, tid).completed_date ELSE NULL>>
  /\ UNCHANGED <<settings, today, view, cursor_idx, where_clause, params,
                 subtitle, todos, running>>

StoreDelete ==
  /\ \E tid \in 1..(MaxTasks + 1) :
       /\ table' = delete_todo(table, tid)
       /\ call' = <<"delete_todo", tid>>
  /\ UNCHANGED <<settings, today, view, cursor_idx, where_clause, params,
                 subtitle, todos, running>>

\* midnight passes between two calls
StoreTick ==
  /\ today < MaxDay
  /\ today' = today + 1
  /\ call' = <<"tick">>
  /\ UNCHANGED <<table, settings, view, cursor_idx, where_clause, params,
                 subtitle, todos, running>>

NextStore == StoreAdd \/ StoreMarkDone \/ StoreDelete \/ StoreTick

SpecStore == Init /\ [][NextStore]_vars

\* ------------------------------------------------------ words of the claims
SeqIds(s) == {s[i].id : i \in 1..Len(s)}
WithoutDeleted(tbl) == {r \in tbl : r.deleted = 0}
DeletedIds(tbl) == {r.id : r \in {x \in tbl : x.deleted = 1}}
FilterContext == <<where_clause, params, subtitle>>
DailyGoal == get_daily_goal(settings)

\* key k with these prompt lines has an effect in the current state
Acts(k, lines) == ENABLED <<Pressed(k, lines)>>_vars

\* C1: a soft-deleted task stays deleted and, while the program runs, no
\* query shows or counts it: the open list under the active filter, the list
\* on screen, the completed list, the Stats counts and the daily and weekly
\* counts are those of the table without its deleted rows.
C1_DeletedNeverQueried ==
  /\ [](running =>
          LET live == WithoutDeleted(table)
              open == draw_dashboard(table, where_clause, params)
              completed == draw_completed(table)
          IN /\ DeletedIds(table) \cap SeqIds(todos) = {}
             /\ DeletedIds(table) \cap SeqIds(open) = {}
             /\ DeletedIds(table) \cap SeqIds(completed) = {}
             /\ open = draw_dashboard(live, where_clause, params)
             /\ completed = draw_completed(live)
             /\ get_stats(table, where_clause, params)
                  = get_stats(live, where_clause, params)
             /\ get_today_completed(table, today)
                  = get_today_completed(live, today)
             /\ get_weekly_stats(table, today) = get_weekly_stats(live, today))
  /\ [][DeletedIds(table) \subseteq DeletedIds(table')]_vars

\* a deleted task that matches the active search, with a task added after it
C1_Witness ==
  /\ view = "dashboard" /\ where_clause = TitleClause
  /\ \E r \in table : \E r2 \in table :
       /\ r.deleted = 1 /\ Like(params[1], r.title)
       /\ r2.id > r.id /\ r2.deleted = 0 /\ r2.id \in SeqIds(todos)

\* the keys of each view's row of the transition table (q apart)
TableKeys(v) ==
  IF v = "dashboard"
  THEN {KEY_UP, KEY_DOWN, "a", "d", "x", "c", "g", "w", "f", "/", "b"}
  ELSE IF v = "grind" THEN {"b", "s"}
  ELSE {"b"}

\* the view the transition table gives for key k in view v
TableView(v, k) ==
  IF v = "dashboard" /\ k = "c" THEN "completed"
  ELSE IF v = "dashboard" /\ k = "g" THEN "grind"
  ELSE IF v = "dashboard" /\ k = "w" THEN "weekly"
  ELSE IF v # "dashboard" /\ k = "b" THEN "dashboard"
  ELSE v

\* what the transition table says of a step that is key k's
ViewEffect(k) ==
  /\ (k = "q") <=> ~running'
  /\ view' = (IF k = "q" THEN view ELSE TableView(view, k))
  /\ (k # "q" /\ k \notin TableKeys(view)) =>
       UNCHANGED <<view, cursor_idx, FilterContext, table, settings>>

\* C2: the controller starts in Dashboard; in every view q ends the loop and
\* the keys that change the view take effect; each key leaves or changes the
\* view as the transition table says and only q ends the loop; a key that is
\* not in the row of the current view changes neither the view nor the
\* cursor, the filter context, the tasks or the daily goal; and the view
\* changes by no step but a key's.
C2_ViewTransitions ==
  /\ view = "dashboard" /\ running = TRUE
  /\ [](running =>
          \A k \in Keys :
            (k = "q" \/ TableView(view, k) # view) => Acts(k, <<>>))
  /\ [][\A k \in Keys :
          ViewEffect(k) \/ ~(\E lines \in Lines(k) : Pressed(k, lines))]_vars
  /\ [][(view' # view \/ running' # running) =>
          \E k \in Keys : \E lines \in Lines(k) : Pressed(k, lines)]_vars

\* the weekly view, entered with a filter set and a task completed
C2_Witness ==
  /\ running /\ view = "weekly"
  /\ where_clause # ""
  /\ \E r \in table : r.done = 1

\* C3: mark_done and delete_todo with an id that no row has, or that a
\* deleted row has, change no row and raise nothing.
C3_MissingOrDeletedIsNoOp ==
  [][(/\ call'[1] \in {"mark_done", "delete_todo"}
      /\ \/ call'[2] \notin Ids(table)
         \/ Row(table, call'[2]).deleted = 1)
       => (table' = table /\ running' = running)]_vars

\* C4: mark_done on an existing row leaves it done with completed_date the
\* day of the call; when the row was already done on an earlier day and is
\* not deleted, the count of the call's day gains it and the count of the
\* earlier day loses it.
C4_MarkDoneRestamps ==
  [][(call'[1] = "mark_done" /\ call'[2] \in Ids(table)) =>
       LET tid == call'[2]
           r == Row(table, tid)
           r2 == Row(table', tid)
       IN /\ tid \in Ids(table')
          /\ r2.done = 1
          /\ r2.completed_date = isoformat(today)
          /\ (r.done = 1 /\ r.deleted = 0 /\ r.completed_date # isoformat(today)) =>
               /\ CountCompletedOn(table', isoformat(today))
                    = CountCompletedOn(table, isoformat(today)) + 1
               /\ CountCompletedOn(table', r.completed_date)
                    = CountCompletedOn(table, r.completed_date) - 1]_vars

\* mark_done has just re-stamped a live row that was done on an earlier day
C4_Witness ==
  /\ call # <<>> /\ call[1] = "mark_done"
  /\ call[2] \in Ids(table)
  /\ call[3] \notin {NULL, isoformat(today)}
  /\ Row(table, call[2]).deleted = 0
  /\ Row(table, call[2]).completed_date = isoformat(today)

\* the order the claims give the open list: High < Medium < Low, then the
\* greater id first
Rank(p) == IF p = High THEN 0 ELSE IF p = Medium THEN 1 ELSE 2
Before(u, t) ==
  \/ Rank(u.priority) < Rank(t.priority)
  \/ (Rank(u.priority) = Rank(t.priority) /\ u.id > t.id)

\* the rows that are neither deleted nor done and match a filter
OpenMatching(tbl, wc, ps) ==
  {r \in tbl : r.deleted = 0 /\ r.done = 0 /\ Where(r, wc, ps)}

\* what `a` does with the lines in, the new row's priority being prio
AddEffect(in, prio) ==
  LET new == table' \ table
  IN /\ table \subseteq table'
     /\ Cardinality(new) = 1
     /\ Cardinality(Ids(table')) = Cardinality(table')
     /\ \A r \in new :
          /\ r.id \notin Ids(table)
          /\ r.done = 0 /\ r.deleted = 0
          /\ r.title = in[1] /\ r.category = in[2]
          /\ r.priority = prio
     /\ cursor_idx' = 0
     /\ where_clause' = "" /\ params' = <<>> /\ subtitle' = <<>>
     /\ view' = view /\ settings' = settings /\ running'

PriorityAsTyped(text) == IF text \in {High, Medium, Low} THEN text ELSE Medium
PriorityNormalised(text) ==
  LET p == capitalize(strip(text))
  IN IF p \in {High, Medium, Low} THEN p ELSE Medium

\* `a` takes effect on the dashboard (while the table has room in the model)
AddActs ==
  (running /\ view = "dashboard" /\ Cardinality(table) < MaxTasks) =>
    \A in \in AddInputs : Acts("a", in)

C6_ActsOnTaskAtCursor ==
  /\ []((running /\ view = "dashboard"
           /\ OpenMatching(table, where_clause, params) # {})
          => (Acts("d", <<>>) /\ Acts("x", <<>>)))
  /\ [][\A k \in {"d", "x"} :
          (view = "dashboard" /\ Pressed(k, <<>>)) =>
            LET open == OpenMatching(table, where_clause, params)
            IN IF open = {}
               THEN UNCHANGED <<table, settings, view, cursor_idx, FilterContext>>
               ELSE \E t \in open :
                      /\ Cardinality({u \in open : Before(u, t)}) = cursor_idx
                      /\ FilterContext' = FilterContext
                      /\ cursor_idx' = 0 /\ view' = view /\ settings' = settings
                      /\ running'
                      /\ t.id \notin SeqIds(todos')
                      /\ t.id \notin SeqIds(draw_dashboard(table', "", <<>>))
                      /\ IF k = "d"
                         THEN /\ table' = (table \ {t}) \cup
                                   {[t EXCEPT !.done = 1,
                                              !.completed_date = isoformat(today)]}
                              /\ t.id \in SeqIds(draw_completed(table'))
                         ELSE table' = (table \ {t}) \cup
                                   {[t EXCEPT !.deleted = 1]}]_vars

\* a task completed today that was not first in the filtered list on screen
C6_Witness ==
  /\ running /\ view = "dashboard" /\ cursor_idx = 0
  /\ where_clause = CategoryClause
  /\ \E r \in table : \E u \in OpenMatching(table, where_clause, params) :
       /\ r.done = 1 /\ r.deleted = 0
       /\ r.completed_date = isoformat(today)
       /\ Where(r, where_clause, params)
       /\ Before(u, r)

\* the orders in which a SELECT without ORDER BY may return the rows
Orders(rows) ==
  {p \in [1..Cardinality(rows) -> rows] :
     \A i \in DOMAIN p : \A j \in DOMAIN p : i # j => p[i] # p[j]}

\* C7: while the program runs, the open list under the active filter holds
\* exactly the rows that are not deleted, not done and match it, each once,
\* in the order priority ascending then id descending; any two distinct such
\* rows are ordered one way only, so that the list is the same in whatever
\* order the rows are fetched; and in Dashboard it is the list on screen.
C7_OpenListOrder ==
  running =>
    LET L == draw_dashboard(table, where_clause, params)
        open == OpenMatching(table, where_clause, params)
    IN /\ SeqIds(L) = Ids(open)
       /\ Len(L) = Cardinality(open)
       /\ \A i \in 1..Len(L) : \A j \in 1..Len(L) :
            i < j => Before(L[i], L[j])
       /\ \A u \in open : \A t \in open :
            u # t => (Before(u, t) # Before(t, u))
       /\ \A p \in Orders(open) :
            sorted([i \in DOMAIN p |-> DashColumns(p[i])]) = L
       /\ view = "dashboard" => todos = L

\* two tasks of one priority on screen, the cursor on the second
C7_Witness ==
  /\ running /\ view = "dashboard" /\ cursor_idx = 1
  /\ Len(todos) >= 2
  /\ todos[1].priority = todos[2].priority
  /\ todos[1].id > todos[2].id

\* C8: with a category filter active the open list is exactly the rows not
\* deleted, not done, whose category equals it, and Stats counts the rows not
\* deleted (total) and the rows done and not deleted (done) whose category
\* equals it; with no filter both range over all rows not deleted.
C8_CategoryFilter ==
  LET live == {r \in table : r.deleted = 0}
      sel == IF where_clause = CategoryClause
             THEN {r \in live : r.category = params[1]}
             ELSE live
  IN where_clause \in {"", CategoryClause} =>
       /\ (running /\ view = "dashboard") =>
            SeqIds(todos) = Ids({r \in sel : r.done = 0})
       /\ get_stats(table, where_clause, params)
            = <<Cardinality(sel), Cardinality({r \in sel : r.done = 1})>>

\* filter w on screen: a task of category w shown, a task of category W not
C8_Witness ==
  /\ running /\ view = "dashboard" /\ where_clause = CategoryClause
  /\ params = << <<"w">> >>
  /\ \E r \in table : r.category = <<"W">> /\ r.deleted = 0 /\ r.done = 0
  /\ \E i \in 1..Len(todos) : todos[i].category = <<"w">>

\* s occurs in t as a run of consecutive characters, compared exactly
Contains(t, s) ==
  \E i \in 0..(Len(t) - Len(s)) : SubSeq(t, i + 1, i + Len(s)) = s

\* C9: with a title search for s active the open list is exactly the rows
\* not deleted, not done, whose title contains s literally and with the same
\* letter case; % and _ in s stand for themselves.
C9_TitleSearchLiteral ==
  (running /\ view = "dashboard" /\ where_clause = TitleClause) =>
    LET s == SubSeq(params[1], 2, Len(params[1]) - 1)
    IN SeqIds(todos) =
         Ids({r \in table : r.deleted = 0 /\ r.done = 0 /\ Contains(r.title, s)})

\* each text typed at the prompt of `s`, with what int() makes of it
GoalParses == {<<text, int(text)>> : text \in GoalInputs}

\* C10: the daily goal is 5 at the start and positive ever after; `s` in the
\* grind view sets it to n exactly when the text typed is an integer n > 0
\* (and then takes effect unless the goal is n already), any other text
\* leaves the stored goal as it was and ends nothing; no other step changes
\* the stored goal.
C10_DailyGoalPositive ==
  /\ DailyGoal = 5
  /\ [](/\ DOMAIN settings = {"daily_goal"} /\ DailyGoal > 0
        /\ (running /\ view = "grind") =>
             \A g \in GoalParses :
               (g[2].ok /\ g[2].val > 0 /\ g[2].val # DailyGoal)
                 => Acts("s", <<g[1]>>))
  /\ [][view = "grind" =>
          \A g \in GoalParses :
            \/ /\ running'
               /\ IF g[2].ok /\ g[2].val > 0
                  THEN get_daily_goal(settings') = g[2].val
                  ELSE settings' = settings
            \/ ~Pressed("s", <<g[1]>>)]_vars
  /\ [][settings' # settings =>
          /\ view = "grind"
          /\ \E g \in GoalParses :
               /\ g[2].ok /\ g[2].val > 0
               /\ Pressed("s", <<g[1]>>)]_vars

\* the grind view after the goal was set to 1
C10_Witness ==
  /\ running /\ view = "grind"
  /\ DailyGoal = 1 /\ settings["daily_goal"] = <<"1">>

\* the day d hit the daily goal: its completed count is at least the goal
HitGoal(d) == CountCompletedOn(table, isoformat(d)) >= DailyGoal

\* the streak the weekly view shows
Streak == current_streak(get_weekly_stats(table, today), DailyGoal)

\* C11: the streak shown in the weekly view is the length of the longest run
\* of consecutive days ending at today, within today-6 .. today, each of
\* which hit the daily goal; it is 0 when today did not hit the goal,
\* whatever the earlier days, and it is at most 7.
C11_Streak ==
  (running /\ view = "weekly") =>
    /\ Streak \in 0..7
    /\ \A i \in 0..(Streak - 1) : HitGoal(today - i)
    /\ Streak < 7 => ~HitGoal(today - Streak)
    /\ ~HitGoal(today) => Streak = 0

\* the weekly view on a day that missed the goal after a day that hit it
C11_Witness ==
  /\ running /\ view = "weekly"
  /\ HitGoal(today - 1) /\ ~HitGoal(today)
  /\ Streak = 0

\* C12: the weekly series has exactly 7 entries, for the days today-6,
\* today-5, ..., today in that order, and the count of each entry is the
\* number of rows not deleted and done whose completed_date is that day.
C12_WeeklySeries ==
  (running /\ view = "weekly") =>
    LET w == get_weekly_stats(table, today)
    IN /\ Len(w) = 7
       /\ \A k \in 1..7 :
            /\ w[k][1] = today - 7 + k
            /\ w[k][2] = Cardinality({r \in table :
                            /\ r.deleted = 0 /\ r.done = 1
                            /\ r.completed_date = isoformat(today - 7 + k)})

\* the weekly view with a task completed yesterday and one completed today
C12_Witness ==
  /\ running /\ view = "weekly"
  /\ get_weekly_stats(table, today)[6] = <<today - 1, 1>>
  /\ get_weekly_stats(table, today)[7] = <<today, 1>>

\* ------------------------------------------------- the progress percentages
\* The percentages n below 401 for which the double (n / 100) * 100 falls
\* short of n, so that int() of it is n - 1 (IEEE-754 binary64, division and
\* product each rounded to nearest).
FloatShort ==
  {29, 57, 58, 113, 114, 115, 116, 201, 203, 205, 207, 226, 228, 230, 232,
   251, 253, 255}

\* int((num / den) * 100) for den > 0 and 100 * num <= 400 * den: the
\* quotient is rounded to a double first, so the result is the floor of
\* 100 * num / den except where that is an integer of FloatShort
PercentOf(num, den) ==
  LET n == (100 * num) \div den
  IN IF (100 * num) % den = 0 /\ n \in FloatShort THEN n - 1 ELSE n

Min(a, b) == IF a < b THEN a ELSE b

\* draw_dashboard: progress
dashboard_progress(total, done) ==
  IF total # 0 THEN PercentOf(done, total) ELSE 0

\* draw_daily_grind: progress, capped at 100
grind_progress(completed_today, daily_goal) ==
  Min(IF daily_goal > 0 THEN PercentOf(completed_today, daily_goal) ELSE 0, 100)

\* The two computations applied to counts the store can hold: done rows among
\* total rows, and tasks completed today against a positive goal.  call
\* holds the view, the two counts and the percentage shown.
ProgressDashboard ==
  /\ \E total \in 0..MaxCount : \E done \in 0..total :
       call' = <<"dashboard", done, total, dashboard_progress(total, done)>>
  /\ UNCHANGED <<table, settings, today, view, cursor_idx, where_clause, params,
                 subtitle, todos, running>>

ProgressGrind ==
  /\ \E completed_today \in 0..MaxGrindDone : \E daily_goal \in 1..MaxGoalValue :
       call' = <<"grind", completed_today, daily_goal,
                 grind_progress(completed_today, daily_goal)>>
  /\ UNCHANGED <<table, settings, today, view, cursor_idx, where_clause, params,
                 subtitle, todos, running>>

NextProgress == ProgressDashboard \/ ProgressGrind

SpecProgress == Init /\ [][NextProgress]_vars

\* C13: the percentage shown is floor(done / total * 100) when total > 0 and
\* 0 when total = 0, on the dashboard (done of total) and in the grind view
\* (completed today of the daily goal); on the dashboard it lies in 0..100.
C13_ProgressFloor ==
  call # <<>> =>
    /\ call[4] = IF call[3] > 0 THEN (100 * call[2]) \div call[3] ELSE 0
    /\ call[1] = "dashboard" => call[4] \in 0..100

\* ------------------------------------------------------ resolving a due text
\* what may be typed at the Due prompt of `a`
DueInputs ==
  { <<>>, <<" "," ">>, <<" ","T","o","d","a","y"," ">>,
    <<"t","o","m","o","r","r","o","w">>, <<"+","2","d">>, <<"+","0","d">>,
    <<" ","+","1","W">>, <<"+","d">>, <<" ","A","b"," ">>,
    <<"2","0","2","4","-","0","1","-","1","2">>,
    <<"+","9","9","9","9","9","9","9","d">>, <<"+",SuperscriptTwo,"d">> }

\* parse_due_date called on a text; call holds the text, the day and the result
ResolveDue ==
  /\ \E text \in DueInputs :
       call' = <<"parse_due_date", text, today, parse_due_date(text, today)>>
  /\ UNCHANGED <<table, settings, today, view, cursor_idx, where_clause,
                 params, subtitle, todos, running>>

\* `a` with the text typed at the Due prompt
DueAdd == \E text \in DueInputs : Add(<<<<"A">>, <<>>, text, <<>>>>)

NextDue == ResolveDue \/ DueAdd \/ Tick

SpecDue == Init /\ [][NextDue]_vars

\* a text of decimal digits
IsNumeral(s) == s # <<>> /\ \A i \in 1..Len(s) : IsDecimalChar(s[i])

\* the result the rules give for text on day d: `due` is that result
DueAsRuled(text, d, due) ==
  LET s == lower(strip(text))
      mid == SubSeq(s, 2, Len(s) - 1)
  IN IF s = <<>> THEN due = <<>>
     ELSE IF s = <<"t","o","d","a","y">> THEN due = isoformat(d)
     ELSE IF s = <<"t","o","m","o","r","r","o","w">> THEN due = isoformat(d + 1)
     ELSE IF s[1] = "+" /\ s[Len(s)] = "d" /\ IsNumeral(mid)
          THEN ~Raises(due) /\ due = isoformat(d + DigitsValue(mid))
     ELSE IF s[1] = "+" /\ s[Len(s)] = "w" /\ IsNumeral(mid)
          THEN ~Raises(due) /\ due = isoformat(d + 7 * DigitsValue(mid))
     ELSE IF date_parser_parse(s).ok THEN ~Raises(due)
     ELSE due = s

\* C14: parse_due_date maps empty or blank text to "", today, tomorrow, +Nd
\* and +Nw (after strip and lower) to today, today+1, today+N and today+7N,
\* and returns every other text that is no calendar date stripped and
\* lowered; the add that used the text stores one more task and the loop
\* goes on.
C14_ResolveDue ==
  /\ [](call # <<>> => DueAsRuled(call[2], call[3], call[4]))
  /\ [][\A text \in DueInputs :
          Add(<<<<"A">>, <<>>, text, <<>>>>) =>
            /\ running'
            /\ Cardinality(table') = Cardinality(table) + 1
            /\ \E r \in table' \ table : DueAsRuled(text, today, r.due)]_vars

\* the inputs on which the rules and parse_due_date agree
C14_RuledInputsAgree ==
  (call # <<>> /\ ~Raises(call[4])) => DueAsRuled(call[2], call[3], call[4])
C14_WeeksResolved ==
  call # <<>> /\ call[2] = <<" ","+","1","W">> /\ call[4] = isoformat(call[3] + 7)
C14_Raised == call # <<>> /\ Raises(call[4])
C14_AddRaised == ~running /\ table = {} /\ call = <<>>

\* C15: a row, once inserted, stays in the table with the same id, title,
\* category, due and priority; done and deleted only ever go from 0 to 1.
C15_RecordsPersist ==
  [][\A r \in table : \E q \in table' :
        /\ q.id = r.id /\ q.title = r.title /\ q.category = r.category
        /\ q.due = r.due /\ q.priority = r.priority
        /\ q.done >= r.done /\ q.deleted >= r.deleted]_vars
C15_Witness ==
  /\ Cardinality(table) = 2
  /\ \E r \in table : r.done = 1 /\ r.deleted = 1

\* C16: in every state a row has done = 1 exactly when its completed_date is
\* set; a row just inserted has done = 0 and no completed_date, and a step
\* that sets done sets completed_date to the day of the call.
C16_DoneIffCompletedDate ==
  /\ [](\A r \in table : r.done = 1 <=> r.completed_date # NULL)
  /\ [][\A q \in table' :
          /\ q.id \notin Ids(table) => q.done = 0 /\ q.completed_date = NULL
          /\ (q.id \in Ids(table) /\ Row(table, q.id).done = 0 /\ q.done = 1)
               => q.completed_date = isoformat(today)]_vars
C16_Witness ==
  /\ call # <<>> /\ call[1] = "mark_done"
  /\ \E r \in table : r.done = 1 /\ r.completed_date = isoformat(today)
  /\ \E r \in table : r.done = 0 /\ r.completed_date = NULL

\* length of the open list under the active filter
OpenCount == Cardinality(OpenMatching(table, where_clause, params))

\* C17 as stated: the cursor index is always one of 0 .. len(list) - 1
C17_CursorInList == running => cursor_idx \in 0..(OpenCount - 1)

\* C17 (amended): the cursor index is 0 while the open list under the active
\* filter is empty and one of 0 .. len(list) - 1 otherwise; up and down move
\* it by one modulo the length and leave it alone on an empty list; a, d, x,
\* b, f and / with non-empty text, and every step that changes a task or the
\* filter, set it to 0.
C17_Cursor ==
  /\ [](running =>
          cursor_idx \in 0..(IF OpenCount = 0 THEN 0 ELSE OpenCount - 1))
  /\ [][view = "dashboard" =>
          /\ Pressed(KEY_UP, <<>>) =>
               cursor_idx' = IF OpenCount = 0 THEN cursor_idx
                             ELSE (cursor_idx - 1) % OpenCount
          /\ Pressed(KEY_DOWN, <<>>) =>
               cursor_idx' = IF OpenCount = 0 THEN cursor_idx
                             ELSE (cursor_idx + 1) % OpenCount
          /\ \A k \in {"d", "x", "b"} : cursor_idx' = 0 \/ ~Pressed(k, <<>>)
          /\ \A in \in AddInputs : cursor_idx' = 0 \/ ~Pressed("a", in)
          /\ \A cat \in FilterInputs \ {<<>>} :
               cursor_idx' = 0 \/ ~Pressed("f", <<cat>>)
          /\ \A query \in SearchInputs \ {<<>>} :
               cursor_idx' = 0 \/ ~Pressed("/", <<query>>)]_vars
  /\ [][(table' # table \/ FilterContext' # FilterContext)
          => cursor_idx' = 0]_vars
C17_Witness ==
  running /\ view = "dashboard" /\ OpenCount = 2 /\ cursor_idx = 1
    /\ where_clause = CategoryClause

\* the days a count is looked at: the weekly window of every day of the run
CountedDays == (StartDay - 6)..MaxDay

\* C18: no step of the keystroke loop changes a row that is done (its
\* completed_date and deleted included); so the count of tasks completed on
\* any one day never goes down, and the count of a day before today
\* never changes.
C18_CompletedImmutable ==
  [][table' = table \/
       /\ \A r \in table : r.done = 1 => r \in table'
       /\ \A d \in CountedDays :
            /\ CountCompletedOn(table', isoformat(d))
                 >= CountCompletedOn(table, isoformat(d))
            /\ d < today =>
                 CountCompletedOn(table', isoformat(d))
                   = CountCompletedOn(table, isoformat(d))]_vars
C18_Witness ==
  /\ running /\ view = "dashboard"
  /\ CountCompletedOn(table, isoformat(today - 1)) = 1
  /\ CountCompletedOn(table, isoformat(today)) = 1

\* no filter: the context main() starts with
NoFilter == <<"", <<>>, <<>>>>

\* the inputs C19 lists as changing the filter took this step
FilterChanger ==
  /\ view = "dashboard"
  /\ \/ \E cat \in FilterInputs \ {<<>>} : Pressed("f", <<cat>>)
     \/ \E query \in SearchInputs \ {<<>>} : Pressed("/", <<query>>)
     \/ Pressed("b", <<>>)
     \/ \E in \in AddInputs : Pressed("a", in)

\* the inputs C19 lists as leaving the filter alone took this step
FilterKeeper ==
  \/ Pressed("f", <<<<>>>>) \/ Pressed("/", <<<<>>>>)
  \/ \E k \in {"d", "x", KEY_UP, KEY_DOWN, "c", "g", "w"} : Pressed(k, <<>>)
  \/ view # "dashboard" /\ Pressed("b", <<>>)

\* C19: the filter context changes only by a step of f or / with non-empty
\* text, of b or of a, taken on the dashboard; f sets the category filter, /
\* the title search, b and a no filter; f or / with empty text, d, x, the
\* cursor keys, c, g, w and b in another view leave it as it was.
C19_FilterFrame ==
  /\ [][FilterContext' # FilterContext => FilterChanger]_vars
  /\ [][FilterContext' = FilterContext \/ ~FilterKeeper]_vars
  /\ [][view = "dashboard" =>
          /\ \A cat \in FilterInputs \ {<<>>} :
               (where_clause' = CategoryClause /\ params' = <<cat>>)
                 \/ ~Pressed("f", <<cat>>)
          /\ \A query \in SearchInputs \ {<<>>} :
               (where_clause' = TitleClause
                  /\ params' = << <<"%">> \o query \o <<"%">> >>)
                 \/ ~Pressed("/", <<query>>)
          /\ FilterContext' = NoFilter
               \/ ~(Pressed("b", <<>>) \/ \E in \in AddInputs : Pressed("a", in))]_vars
C19_Witness ==
  running /\ view = "completed" /\ where_clause = CategoryClause
    /\ params = << <<"w">> >> /\ \E r \in table : r.done = 1

\* C20: a step taken in the completed, grind or weekly view changes no row
\* of todos; it changes the settings only as s in the grind view; b leads to
\* the dashboard with the cursor set to 0 from the completed view and left
\* where it was from the grind and weekly views.
C20_OtherViewsFrame ==
  [][view # "dashboard" =>
       /\ table' = table
       /\ settings' = settings
            \/ (view = "grind"
                  /\ \E text \in GoalInputs : Pressed("s", <<text>>))
       /\ (view' = "dashboard"
             /\ cursor_idx' = IF view = "completed" THEN 0 ELSE cursor_idx)
            \/ ~Pressed("b", <<>>)]_vars
C20_Witness ==
  running /\ view = "grind" /\ cursor_idx = 1 /\ DailyGoal = 1
    /\ Cardinality(table) = 2
====
